---------------------------- MODULE Spec2Model ----------------------------
(***************************************************************************)
(* Model of src/src/app.rs: the signal synthesizer get_combined_wave, the  *)
(* recursive radix-2 fft, and the part of TemplateApp::update that edits   *)
(* the application state and runs the two per frame.                       *)
(*                                                                         *)
(* Numbers are IEEE-754 binary64 values (Rust f64), computed exactly:      *)
(* a finite value is sign * m * 2^e with the magnitude m an arbitrary-     *)
(* length natural number kept as a sequence of limbs, and every operation  *)
(* rounds to 53 significant bits, ties to even, with gradual underflow at  *)
(* 2^-1074 and overflow to infinity.  The sign of zero is not kept: no     *)
(* operation of the program tells +0.0 from -0.0 (num_samples as f64 is    *)
(* never -0.0, and f64 comparison treats them as equal).                   *)
(***************************************************************************)
EXTENDS Integers, Sequences, FiniteSets, TLC

(***************************************************************************)
(* Natural numbers of any size: limbs of LimbBits bits, least significant  *)
(* first, with no most-significant zero limb; <<>> is 0.  Bit positions    *)
(* count from 1 at the least significant bit.                              *)
(***************************************************************************)
LimbBits == 15
Base == 2 ^ LimbBits

RECURSIVE BNorm(_)
BNorm(b) ==
    IF b = <<>> THEN <<>>
    ELSE IF b[Len(b)] = 0 THEN BNorm(SubSeq(b, 1, Len(b) - 1))
    ELSE b

RECURSIVE BFromNat(_)
BFromNat(n) ==
    IF n = 0 THEN <<>> ELSE <<n % Base>> \o BFromNat(n \div Base)

\* the number of bits of a limb n >= 1
IntBitLen(n) == CHOOSE k \in 1..LimbBits : 2 ^ (k - 1) <= n /\ n < 2 ^ k

BitLen(b) ==
    IF b = <<>> THEN 0 ELSE LimbBits * (Len(b) - 1) + IntBitLen(b[Len(b)])

BLimb(b, i) == IF i >= 1 /\ i <= Len(b) THEN b[i] ELSE 0

BBit(b, i) ==
    IF i < 1 THEN 0
    ELSE (BLimb(b, (i - 1) \div LimbBits + 1) \div 2 ^ ((i - 1) % LimbBits)) % 2

RECURSIVE BAddC(_, _, _, _, _)
BAddC(a, b, i, c, acc) ==
    IF i > Len(a) /\ i > Len(b)
    THEN IF c = 1 THEN Append(acc, 1) ELSE acc
    ELSE LET t == BLimb(a, i) + BLimb(b, i) + c
         IN BAddC(a, b, i + 1, t \div Base, Append(acc, t % Base))

BAdd(a, b) ==
    IF a = <<>> THEN b ELSE IF b = <<>> THEN a ELSE BAddC(a, b, 1, 0, <<>>)

\* a - b for a >= b
RECURSIVE BSubC(_, _, _, _, _)
BSubC(a, b, i, c, acc) ==
    IF i > Len(a) THEN acc
    ELSE LET t == BLimb(a, i) - BLimb(b, i) - c
         IN BSubC(a, b, i + 1, IF t < 0 THEN 1 ELSE 0,
                  Append(acc, IF t < 0 THEN t + Base ELSE t))

BSub(a, b) == IF b = <<>> THEN a ELSE BNorm(BSubC(a, b, 1, 0, <<>>))

\* -1, 0, 1 as a < b, a = b, a > b
RECURSIVE BCmpAt(_, _, _)
BCmpAt(a, b, i) ==
    IF i = 0 THEN 0
    ELSE IF a[i] < b[i] THEN -1
    ELSE IF a[i] > b[i] THEN 1
    ELSE BCmpAt(a, b, i - 1)

BCmp(a, b) ==
    IF Len(a) < Len(b) THEN -1
    ELSE IF Len(a) > Len(b) THEN 1
    ELSE BCmpAt(a, b, Len(a))

\* b * c + carry for a limb-size c
RECURSIVE BMulLimbC(_, _, _, _, _)
BMulLimbC(b, c, i, carry, acc) ==
    IF i > Len(b)
    THEN IF carry > 0 THEN Append(acc, carry) ELSE acc
    ELSE LET t == b[i] * c + carry
         IN BMulLimbC(b, c, i + 1, t \div Base, Append(acc, t % Base))

BMulLimb(b, c) ==
    IF b = <<>> \/ c = 0 THEN <<>> ELSE BMulLimbC(b, c, 1, 0, <<>>)

BShlLimbs(b, k) == IF b = <<>> \/ k = 0 THEN b ELSE [i \in 1..k |-> 0] \o b

\* b * 2^k
BShl(b, k) ==
    IF k <= 0 THEN b
    ELSE BShlLimbs(BMulLimb(b, 2 ^ (k % LimbBits)), k \div LimbBits)

\* floor(b / 2^k)
BShr(b, k) ==
    IF k <= 0 THEN b
    ELSE LET q == k \div LimbBits
             r == k % LimbBits
         IN IF q >= Len(b) THEN <<>>
            ELSE BNorm([i \in 1..(Len(b) - q) |->
                        (b[i + q] \div 2 ^ r)
                          + (BLimb(b, i + q + 1) % 2 ^ r) * 2 ^ (LimbBits - r)])

\* whether one of the k lowest bits is set
BAnyLow(b, k) ==
    /\ k >= 1
    /\ \/ \E i \in 1..(k \div LimbBits) : BLimb(b, i) # 0
       \/ BLimb(b, k \div LimbBits + 1) % 2 ^ (k % LimbBits) # 0

RECURSIVE BMulAt(_, _, _, _)
BMulAt(a, b, i, acc) ==
    IF i > Len(b) THEN acc
    ELSE BMulAt(a, b, i + 1,
                BAdd(acc, BShlLimbs(BMulLimb(a, b[i]), i - 1)))

BMul(a, b) ==
    IF a = <<>> \/ b = <<>> THEN <<>>
    ELSE IF Len(a) >= Len(b) THEN BMulAt(a, b, 1, <<>>)
    ELSE BMulAt(b, a, 1, <<>>)

\* <<floor(b / d), b % d>> for a divisor 1 <= d < 2^16
RECURSIVE BDivAt(_, _, _, _, _)
BDivAt(b, d, i, r, acc) ==
    IF i = 0 THEN <<BNorm(acc), r>>
    ELSE LET t == r * Base + b[i]
         IN BDivAt(b, d, i - 1, t % d, <<t \div d>> \o acc)

BDivSmall(b, d) == BDivAt(b, d, Len(b), 0, <<>>)

\* the number of low zero bits of a limb n >= 1
IntLowZeros(n) == CHOOSE t \in 0..(LimbBits - 1) : (n \div 2 ^ t) % 2 = 1 /\ n % 2 ^ t = 0

\* the index of the lowest non-zero limb of b # 0
LowLimb(b) == CHOOSE i \in 1..Len(b) : b[i] # 0 /\ \A h \in 1..(i - 1) : b[h] = 0

BLowZerosAt(b, j) == LimbBits * (j - 1) + IntLowZeros(b[j])

\* the number of low zero bits of b # 0
BLowZeros(b) == BLowZerosAt(b, LowLimb(b))

(***************************************************************************)
(* f64.  Prec, MinExp and MaxExp are the format's: 53 significant bits,    *)
(* the smallest positive value 2^-1074, every finite value below 2^1024.   *)
(***************************************************************************)
Prec == 53
MinExp == -1074
MaxExp == 1024

FNaN == [k |-> "nan", s |-> 0, m |-> <<>>, e |-> 0]
FInf(s) == [k |-> "inf", s |-> s, m |-> <<>>, e |-> 0]
FZero == [k |-> "fin", s |-> 0, m |-> <<>>, e |-> 0]

IsNaN(a) == a.k = "nan"
IsInf(a) == a.k = "inf"
IsFinite(a) == a.k = "fin"
IsZero(a) == a.k = "fin" /\ a.m = <<>>

\* the exponent of the first bit above a finite a # 0: |a| < 2^Top(a)
Top(a) == a.e + BitLen(a.m)

FStrip(s, m, e, z) == [k |-> "fin", s |-> s, m |-> BShr(m, z), e |-> e + z]

\* sign * m * 2^e exactly, in canonical form (m odd); it need not fit an f64
FExact(s, m, e) == IF m = <<>> THEN FZero ELSE FStrip(s, m, e, BLowZeros(m))

\* overflow to infinity
FFit(s, m, e) == IF BitLen(m) + e > MaxExp THEN FInf(s) ELSE FExact(s, m, e)

\* kept = floor(m / 2^d), rounded up when the d bits dropped are more than
\* half of the last place kept, or half of it and kept is odd
RoundKept(m, d, kept) ==
    IF BBit(m, d) = 1 /\ (BAnyLow(m, d - 1) \/ BBit(kept, 1) = 1)
    THEN BAdd(kept, <<1>>)
    ELSE kept

\* the exponent of the last place of the f64 nearest to m * 2^e
Quantum(m, e) ==
    IF e + BitLen(m) - Prec > MinExp THEN e + BitLen(m) - Prec ELSE MinExp

FRoundAt(s, m, e, q) ==
    IF q <= e THEN FFit(s, m, e)
    ELSE FFit(s, RoundKept(m, q - e, BShr(m, q - e)), q)

\* the f64 nearest to sign * m * 2^e, ties to even
FRound(s, m, e) == IF m = <<>> THEN FZero ELSE FRoundAt(s, m, e, Quantum(m, e))

FNeg(a) ==
    IF IsNaN(a) \/ IsZero(a) THEN a ELSE [a EXCEPT !.s = 1 - a.s]

Min(x, y) == IF x < y THEN x ELSE y

\* -1, 0, 1 as |a| < |b|, |a| = |b|, |a| > |b|, for finite a, b # 0
FMagCmp(a, b) ==
    IF Top(a) < Top(b) THEN -1
    ELSE IF Top(a) > Top(b) THEN 1
    ELSE BCmp(BShl(a.m, a.e - Min(a.e, b.e)), BShl(b.m, b.e - Min(a.e, b.e)))

\* -1, 0, 1 as a is negative, zero, positive
Signum(a) == IF IsZero(a) THEN 0 ELSE IF a.s = 1 THEN -1 ELSE 1

\* -1, 0, 1 as a < b, a = b, a > b, for a, b not NaN
FCmp(a, b) ==
    IF Signum(a) < Signum(b) THEN -1
    ELSE IF Signum(a) > Signum(b) THEN 1
    ELSE IF Signum(a) = 0 THEN 0
    ELSE IF IsInf(a) /\ IsInf(b) THEN 0
    ELSE IF IsInf(a) THEN Signum(a)
    ELSE IF IsInf(b) THEN -Signum(a)
    ELSE Signum(a) * FMagCmp(a, b)

\* the f64 operator < : false when an operand is NaN
FLess(a, b) == ~IsNaN(a) /\ ~IsNaN(b) /\ FCmp(a, b) = -1

\* sa * ma * 2^e + sb * mb * 2^e for c = BCmp(ma, mb)
FAddAligned(sa, ma, sb, mb, e, c) ==
    IF sa = sb THEN FRound(sa, BAdd(ma, mb), e)
    ELSE IF c = 0 THEN FZero
    ELSE IF c > 0 THEN FRound(sa, BSub(ma, mb), e)
    ELSE FRound(sb, BSub(mb, ma), e)

FAddAt(sa, ma, sb, mb, e) == FAddAligned(sa, ma, sb, mb, e, BCmp(ma, mb))

FAdd(a, b) ==
    IF IsNaN(a) \/ IsNaN(b) THEN FNaN
    ELSE IF IsInf(a) THEN (IF IsInf(b) /\ b.s # a.s THEN FNaN ELSE a)
    ELSE IF IsInf(b) THEN b
    ELSE IF IsZero(a) THEN b
    ELSE IF IsZero(b) THEN a
    \* an operand below a quarter of the other's last place changes nothing
    ELSE IF Top(b) < Top(a) - (Prec + 4) THEN a
    ELSE IF Top(a) < Top(b) - (Prec + 4) THEN b
    ELSE FAddAt(a.s, BShl(a.m, a.e - Min(a.e, b.e)),
                b.s, BShl(b.m, b.e - Min(a.e, b.e)), Min(a.e, b.e))

FSub(a, b) == FAdd(a, FNeg(b))

FMul(a, b) ==
    IF IsNaN(a) \/ IsNaN(b) THEN FNaN
    ELSE IF IsInf(a) \/ IsInf(b)
         THEN (IF IsZero(a) \/ IsZero(b) THEN FNaN
               ELSE FInf(IF a.s = b.s THEN 0 ELSE 1))
    ELSE IF IsZero(a) \/ IsZero(b) THEN FZero
    ELSE FRound(IF a.s = b.s THEN 0 ELSE 1, BMul(a.m, b.m), a.e + b.e)

\* the quotient qr[1] with a last bit added that is set when the division
\* left a remainder qr[2]
WithSticky(qr) == BAdd(BShl(qr[1], 1), IF qr[2] = 0 THEN <<>> ELSE <<1>>)

\* a / n from the quotient of a.m * 2^sh
FDivAt(a, n, sh) ==
    FRound(a.s, WithSticky(BDivSmall(BShl(a.m, sh), n)), a.e - sh - 1)

\* a / (n as f64) for a usize n below 2^16, which an f64 holds exactly
FDivNat(a, n) ==
    IF IsNaN(a) THEN FNaN
    ELSE IF n = 0 THEN (IF IsZero(a) THEN FNaN ELSE FInf(a.s))
    ELSE IF IsInf(a) \/ IsZero(a) THEN a
    ELSE FDivAt(a, n, Prec + 2 + BitLen(BFromNat(n)))

\* the f64 of an integer literal, and of (hi * 2^sh + lo) * 2^e
FInt(n) == IF n < 0 THEN FExact(1, BFromNat(-n), 0) ELSE FExact(0, BFromNat(n), 0)
FBits(hi, sh, lo, e) == FExact(0, BAdd(BShl(BFromNat(hi), sh), BFromNat(lo)), e)

\* f64 literals of the program: 3.14 (new), core::f64::consts::PI (fft)
F3_14 == FBits(105360916, 26, 32212255, -51)
PI == FBits(105414357, 26, 4467992, -51)

(***************************************************************************)
(* f64::sin and f64::cos.  The argument is reduced to the nearest of 24    *)
(* directions (steps of pi/12) and the value is that direction's, to      *)
(* 2^-10.                                                                  *)
(* Next to a zero of the function the value is the distance to that zero,  *)
(* computed with pi to 116 bits and rounded: for the arguments 0, pi/2 and *)
(* pi as f64 that is the library's result to the last bit (sin 0 = 0,      *)
(* cos(pi/2) = 6.123233995736766e-17, sin(pi) = 1.2246467991473532e-16).   *)
(* Infinite and NaN arguments give NaN.                                    *)
(***************************************************************************)
\* floor(pi * 2^114), and floor(12/pi * 2^28)
PiLimbs == <<3521, 20848, 12696, 6754, 26818, 17474, 16234, 1608>>
TurnLimbs == <<4425, 31291>>

\* sin of k/24 of a turn, k in 0..6, in units of 2^-10
SinTable == <<0, 265, 512, 724, 887, 989, 1024>>

SinTurn(k) ==
    IF k <= 6 THEN FRound(0, BFromNat(SinTable[k + 1]), -10)
    ELSE IF k <= 12 THEN FRound(0, BFromNat(SinTable[12 - k + 1]), -10)
    ELSE IF k <= 18 THEN FRound(1, BFromNat(SinTable[k - 12 + 1]), -10)
    ELSE FRound(1, BFromNat(SinTable[24 - k + 1]), -10)

\* p / 2^sh rounded to an integer
StepsAt(p, sh) ==
    IF sh <= 0 THEN BShl(p, -sh) ELSE BShr(BAdd(p, BShl(<<1>>, sh - 1)), sh)

\* |a| in steps of pi/12, rounded
Steps(a) == StepsAt(BMul(a.m, TurnLimbs), 28 - a.e)

\* the direction of |a|, 0..23
Direction(a) == BDivSmall(Steps(a), 24)[2]

\* |a| - q * pi/2 at exponent e, for the number q of quarter turns in |a|
ResidueAt(a, q, e) ==
    FAddAt(0, BShl(a.m, a.e - e), 1, BShl(BMul(q, PiLimbs), -115 - e), e)

Residue(a) == ResidueAt(a, BDivSmall(Steps(a), 6)[1], Min(a.e, -115))

\* sin |a| and cos |a| in direction d
SinAt(a, d) ==
    IF d = 0 THEN Residue(a)
    ELSE IF d = 12 THEN FNeg(Residue(a))
    ELSE SinTurn(d)

CosAt(a, d) ==
    IF d = 6 THEN FNeg(Residue(a))
    ELSE IF d = 18 THEN Residue(a)
    ELSE SinTurn((d + 6) % 24)

f64_sin(a) ==
    IF ~IsFinite(a) THEN FNaN
    ELSE IF a.s = 1 THEN FNeg(SinAt(a, Direction(a)))
    ELSE SinAt(a, Direction(a))

f64_cos(a) == IF ~IsFinite(a) THEN FNaN ELSE CosAt(a, Direction(a))

(***************************************************************************)
(* num_complex::Complex<f64>                                               *)
(***************************************************************************)
Complex(re, im) == [re |-> re, im |-> im]

\* impl From<f64> for Complex<f64> (sum.into())
ComplexFrom(re) == Complex(re, FZero)

CAdd(a, b) == Complex(FAdd(a.re, b.re), FAdd(a.im, b.im))
CSub(a, b) == Complex(FSub(a.re, b.re), FSub(a.im, b.im))
CMul(a, b) ==
    Complex(FSub(FMul(a.re, b.re), FMul(a.im, b.im)),
            FAdd(FMul(a.re, b.im), FMul(a.im, b.re)))

from_polar(r, theta) ==
    Complex(FMul(r, f64_cos(theta)), FMul(r, f64_sin(theta)))

(***************************************************************************)
(* get_combined_wave (app.rs 207-230)                                      *)
(***************************************************************************)
applied_function(function, a) ==
    IF function.function = "Sin" THEN f64_sin(a) ELSE f64_cos(a)

\* what one component adds to sum at position i (app.rs 223)
Term(function, i) ==
    FAdd(FMul(applied_function(function, FMul(i, function.frequency)),
              function.amplitude),
         function.y_shift)

\* a fault: sum = term where the program has sum += term
SumOverwrite(functions, k, i, sum) ==
    IF k > Len(functions) THEN sum ELSE Term(functions[Len(functions)], i)

\* the for loop over the components (app.rs 218-224), from component k on
RECURSIVE SumComponents(_, _, _, _)
SumComponents(functions, k, i, sum) ==
    IF k > Len(functions) THEN sum
    ELSE SumComponents(functions, k + 1, i, FAdd(sum, Term(functions[k], i)))

\* a fault: the accumulator starts at 1.0
SumInitOne == FInt(1)

\* let mut sum = 0.0 (app.rs 217)
SumInit == FZero

\* app.rs 225-226 with the sum and the next position computed.  pc = "spin":
\* the loop test held and the pass left i as it was, so the loop never exits.
WavePush(st, sum, i2) ==
    [i |-> i2,
     input |-> Append(st.input, <<st.i, ComplexFrom(sum)>>),
     pc |-> IF i2 = st.i THEN "spin" ELSE "loop"]

\* the loop test and one pass of the while body (app.rs 216-227)
WaveBody(functions, step_size, input_signal_range, st) ==
    IF ~FLess(st.i, input_signal_range) THEN [st EXCEPT !.pc = "exit"]
    ELSE WavePush(st, SumComponents(functions, 1, st.i, SumInit),
                  FAdd(st.i, step_size))

\* up to k passes
RECURSIVE WaveRun(_, _, _, _, _)
WaveRun(functions, step_size, input_signal_range, st, k) ==
    IF st.pc # "loop" THEN st
    ELSE IF k <= 1
    THEN WaveBody(functions, step_size, input_signal_range, st)
    ELSE WaveRun(functions, step_size, input_signal_range,
                 WaveRun(functions, step_size, input_signal_range, st,
                         k \div 2),
                 k - k \div 2)

\* the while loop: passes until the test fails; st is the state after the
\* passes made so far, and k more are made before looking again
RECURSIVE WaveWhile(_, _, _, _, _)
WaveWhile(functions, step_size, input_signal_range, st, k) ==
    IF st.pc # "loop" THEN st
    ELSE WaveWhile(functions, step_size, input_signal_range,
                   WaveRun(functions, step_size, input_signal_range, st, k),
                   2 * k)

\* the call returns the vector when the loop exits; when it never does the
\* vector grows until the allocation fails
WaveResult(end) ==
    IF end.pc = "exit"
    THEN [status |-> "returned", input |-> end.input]
    ELSE [status |-> "diverged", input |-> <<>>]

get_combined_wave(functions, num_samples, input_signal_range) ==
    WaveResult(WaveWhile(functions,
                         FDivNat(input_signal_range, num_samples),
                         input_signal_range,
                         [i |-> FZero, input |-> <<>>, pc |-> "loop"], 1))

(***************************************************************************)
(* fft (app.rs 232-250).  The result records the slice after the call,     *)
(* whether every index used was in bounds (an index out of bounds panics), *)
(* and the indices (from 0) the combine loop of the outermost call wrote.  *)
(***************************************************************************)
\* a fault: the twiddle of the inverse transform (the angle's sign dropped)
TwiddleInverse(i, n) ==
    from_polar(FInt(1), FDivNat(FMul(FMul(FInt(2), PI), FInt(i)), n))

Twiddle(i, n) ==
    from_polar(FInt(1), FDivNat(FMul(FMul(FInt(-2), PI), FInt(i)), n))

\* a fault: the upper half indexed from ceil(n/2)
FftWriteCeil(st, even, n, i, t) ==
    [input |-> [st.input EXCEPT ![i + 1] = CAdd(even[i + 1], t),
                                ![i + (n + 1) \div 2 + 1] = CSub(even[i + 1], t)],
     ok |-> TRUE,
     writes |-> st.writes \o <<i, i + (n + 1) \div 2>>]

\* app.rs 247-248
FftWrite(st, even, n, i, t) ==
    [input |-> [st.input EXCEPT ![i + 1] = CAdd(even[i + 1], t),
                                ![i + n \div 2 + 1] = CSub(even[i + 1], t)],
     ok |-> TRUE,
     writes |-> st.writes \o <<i, i + n \div 2>>]

\* one pass of the combine loop (app.rs 245-248)
FftBody(st, even, odd, n, i) ==
    IF ~(i < Len(odd) /\ i < Len(even) /\ i < Len(st.input)
           /\ i + n \div 2 < Len(st.input))
    THEN [st EXCEPT !.ok = FALSE]
    ELSE FftWrite(st, even, n, i, CMul(Twiddle(i, n), odd[i + 1]))

\* for i in lo..hi
RECURSIVE FftFor(_, _, _, _, _, _)
FftFor(st, even, odd, n, lo, hi) ==
    IF ~st.ok \/ lo >= hi THEN st
    ELSE IF hi - lo = 1 THEN FftBody(st, even, odd, n, lo)
    ELSE LET mid == lo + (hi - lo) \div 2
         IN FftFor(FftFor(st, even, odd, n, lo, mid), even, odd, n, mid, hi)

\* input.iter().step_by(2), input.iter().skip(1).step_by(2) (app.rs 238-239)
Even(input) == [j \in 1..((Len(input) + 1) \div 2) |-> input[2 * j - 1]]
Odd(input) == [j \in 1..(Len(input) \div 2) |-> input[2 * j]]

\* the combine loop (app.rs 244-249) on the transformed halves
FftCombine(input, even, odd) ==
    IF ~even.ok \/ ~odd.ok
    THEN [input |-> input, ok |-> FALSE, writes |-> <<>>]
    ELSE FftFor([input |-> input, ok |-> TRUE, writes |-> <<>>],
                even.input, odd.input, Len(input), 0, Len(input) \div 2)

RECURSIVE fft(_)
fft(input) ==
    IF Len(input) <= 1 THEN [input |-> input, ok |-> TRUE, writes |-> <<>>]
    ELSE FftCombine(input, fft(Even(input)), fft(Odd(input)))


(***************************************************************************)
(* TemplateApp (app.rs 9-23) and eframe::App::update (app.rs 49-204)       *)
(***************************************************************************)
VARIABLES
    functions,           \* TemplateApp.functions
    num_samples,         \* TemplateApp.num_samples
    input_signal_range,  \* TemplateApp.input_signal_range
    frame,               \* what the last update computed and plotted
    wave,                \* the result of a get_combined_wave call
    fft_input,           \* the slice handed to an fft call
    fft_result           \* the result of that call

vars == <<functions, num_samples, input_signal_range, frame, wave,
          fft_input, fft_result>>

\* bounds of the exploration
MaxFunctions == 1
MaxSamples == 3
MaxComponents == 2
MaxFftLen == 6

F0_1 == FBits(107374182, 26, 26843546, -56)
SmallestPositive == FExact(0, <<1>>, MinExp)

\* values typed or dragged into the DragValue widgets
AmplitudeValues == {FInt(2)}
FrequencyValues == {FInt(2)}
YShiftValues == {FInt(1)}
RangeValues == {FInt(-1)}

NoWave == [status |-> "none", input |-> <<>>]
NoFft == [status |-> "none", input |-> <<>>, ok |-> TRUE, writes |-> <<>>]

Self(fs, n, r) ==
    [functions |-> fs, num_samples |-> n, input_signal_range |-> r]

\* TemplateApp::new
new == Self(<<>>, 1000, F3_14)

\* What a frame computed.  state: the application state the central panel
\* was run on.  input, new_input: the locals of the Frequency Plot closure
\* when fft returns (app.rs 188); app.rs 190-194 then rebind input to
\* Zip(input, new_input), which frequency_plot plots.
NoFrame ==
    [status |-> "new", state |-> new, combined_wave |-> <<>>, fft_len |-> 0,
     input |-> <<>>, new_input |-> <<>>, frequency_plot |-> <<>>]

\* "Add function" (app.rs 107-114)
DefaultInputData ==
    [function |-> "Sin", amplitude |-> FInt(1), frequency |-> FInt(1),
     y_shift |-> FZero]

\* DragValue .range(0.0..=100.0) (app.rs 124-128)
ClampRange(v) ==
    IF FLess(v, FZero) THEN FZero
    ELSE IF FLess(FInt(100), v) THEN FInt(100)
    ELSE v

\* the side panel (app.rs 50-131) handling one input event
SidePanel(self, ev) ==
    CASE ev.type = "none" -> self
      [] ev.type = "add" ->
            [self EXCEPT !.functions = Append(@, DefaultInputData)]
      [] ev.type = "function" ->
            [self EXCEPT !.functions[ev.index].function = ev.value]
      [] ev.type = "amplitude" ->
            [self EXCEPT !.functions[ev.index].amplitude = ev.value]
      [] ev.type = "frequency" ->
            [self EXCEPT !.functions[ev.index].frequency = ev.value]
      [] ev.type = "y_shift" ->
            [self EXCEPT !.functions[ev.index].y_shift = ev.value]
      [] ev.type = "num_samples" ->
            [self EXCEPT !.num_samples = ev.value]
      [] ev.type = "input_signal_range" ->
            [self EXCEPT !.input_signal_range = ClampRange(ev.value)]

\* the points of a plotted line: .map(|(x, y)| [*x, y.re])
PlotPoints(input) == [j \in 1..Len(input) |-> <<input[j][1], input[j][2].re>>]

\* input.iter().map(|(_, y)| *y) (app.rs 187)
Values(input) == [j \in 1..Len(input) |-> input[j][2]]

\* the locals of the Frequency Plot closure when fft returns
AfterFft(input, fft_len, res) ==
    [input |-> input, fft_len |-> fft_len, new_input |-> res.input,
     ok |-> res.ok]

\* app.rs 190-194: positions zipped with the transformed values
Zip(input, new_input) ==
    [j \in 1..(IF Len(input) < Len(new_input) THEN Len(input)
               ELSE Len(new_input)) |-> <<input[j][1], new_input[j]>>]

\* a fault: fft run on the values of input itself, not on a copy
TransformInPlace(input) ==
    AfterFft(Zip(input, fft(Values(input)).input), Len(input),
             fft(Values(input)))

\* app.rs 187-188: the values are copied and the copy is transformed
TransformCopy(input) ==
    AfterFft(input, Len(Values(input)), fft(Values(input)))

\* the central panel (app.rs 133-203): the Combined Wave plot, then the
\* Frequency Plot.  self is handed on as the closures leave it.  The Time
\* Plot (app.rs 134-155) draws each component by callback and keeps nothing.
Plotted(self, first, t) ==
    [self |-> self,
     frame |-> [status |-> IF t.ok THEN "drawn" ELSE "panicked",
                state |-> self,
                combined_wave |-> PlotPoints(first.input),
                fft_len |-> t.fft_len,
                input |-> t.input,
                new_input |-> t.new_input,
                frequency_plot |-> PlotPoints(Zip(t.input, t.new_input))]]

\* first, second: the results of the calls at app.rs 162 and 181; a call
\* that never returns leaves the frame unfinished
Plots(self, first, second) ==
    IF first.status # "returned" \/ second.status # "returned"
    THEN [self |-> self,
          frame |-> [NoFrame EXCEPT !.status = "hung", !.state = self]]
    ELSE Plotted(self, first, TransformCopy(second.input))

CombinedWave(self) ==
    get_combined_wave(self.functions, self.num_samples,
                      self.input_signal_range)

CentralPanel(self) == Plots(self, CombinedWave(self), CombinedWave(self))

update(self, ev) == CentralPanel(SidePanel(self, ev))

Commit(r) ==
    /\ functions' = r.self.functions
    /\ num_samples' = r.self.num_samples
    /\ input_signal_range' = r.self.input_signal_range
    /\ frame' = r.frame

Update(ev) ==
    /\ frame.status \in {"new", "drawn"}
    /\ Commit(update(Self(functions, num_samples, input_signal_range), ev))
    /\ UNCHANGED <<wave, fft_input, fft_result>>

Idle == Update([type |-> "none"])

\* bound: components are added once the sample count is within MaxSamples
AddFunction ==
    /\ Len(functions) < MaxFunctions
    /\ num_samples <= MaxSamples
    /\ Update([type |-> "add"])

SelectFunction ==
    \E index \in 1..Len(functions), v \in {"Sin", "Cos"} :
        Update([type |-> "function", index |-> index, value |-> v])

DragAmplitude ==
    \E index \in 1..Len(functions), v \in AmplitudeValues :
        Update([type |-> "amplitude", index |-> index, value |-> v])

DragFrequency ==
    \E index \in 1..Len(functions), v \in FrequencyValues :
        Update([type |-> "frequency", index |-> index, value |-> v])

DragYShift ==
    \E index \in 1..Len(functions), v \in YShiftValues :
        Update([type |-> "y_shift", index |-> index, value |-> v])

DragNumSamples ==
    \E v \in 0..MaxSamples : Update([type |-> "num_samples", value |-> v])

DragRange ==
    \E v \in RangeValues : Update([type |-> "input_signal_range", value |-> v])

Init ==
    /\ functions = new.functions
    /\ num_samples = new.num_samples
    /\ input_signal_range = new.input_signal_range
    /\ frame = NoFrame
    /\ wave = NoWave
    /\ fft_input = <<>>
    /\ fft_result = NoFft

Next ==
    \/ Idle
    \/ AddFunction
    \/ SelectFunction
    \/ DragAmplitude
    \/ DragFrequency
    \/ DragYShift
    \/ DragNumSamples
    \/ DragRange

Spec == Init /\ [][Next]_vars

(***************************************************************************)
(* get_combined_wave as a function: the arguments are drawn from bounded   *)
(* sets and the call is made once.                                         *)
(***************************************************************************)
WaveComponents ==
    { DefaultInputData,
      [function |-> "Cos", amplitude |-> FInt(1), frequency |-> FInt(1),
       y_shift |-> FZero],
      [function |-> "Sin", amplitude |-> F0_1, frequency |-> FInt(2),
       y_shift |-> F0_1],
      [function |-> "Cos", amplitude |-> FInt(-1), frequency |-> F0_1,
       y_shift |-> FExact(0, <<1>>, -1)] }

WaveRanges == {FInt(-1), FZero, SmallestPositive, FInt(1), F3_14}

SeqsUpTo(S, n) == UNION {[1..k -> S] : k \in 0..n}

InitWave ==
    /\ functions \in SeqsUpTo(WaveComponents, MaxComponents)
    /\ num_samples \in 0..MaxSamples
    /\ input_signal_range \in WaveRanges
    /\ frame = NoFrame
    /\ wave = NoWave
    /\ fft_input = <<>>
    /\ fft_result = NoFft

CallGetCombinedWave ==
    /\ wave.status = "none"
    /\ wave' = get_combined_wave(functions, num_samples, input_signal_range)
    /\ UNCHANGED <<functions, num_samples, input_signal_range, frame,
                   fft_input, fft_result>>

SpecWave == InitWave /\ [][CallGetCombinedWave]_vars

(***************************************************************************)
(* fft as a function.                                                      *)
(***************************************************************************)
FftValues ==
    {Complex(FZero, FZero), Complex(FInt(1), FZero), Complex(FInt(-1), FInt(2))}

InitFft ==
    /\ fft_input \in SeqsUpTo(FftValues, MaxFftLen)
    /\ fft_result = NoFft
    /\ functions = <<>>
    /\ num_samples = 0
    /\ input_signal_range = FZero
    /\ frame = NoFrame
    /\ wave = NoWave

\* fft returns (), or an index out of bounds panics
FftOutcome(r) ==
    [status |-> IF r.ok THEN "returned" ELSE "panicked",
     input |-> r.input, ok |-> r.ok, writes |-> r.writes]

CallFft ==
    /\ fft_result.status = "none"
    /\ fft_result' = FftOutcome(fft(fft_input))
    /\ UNCHANGED <<functions, num_samples, input_signal_range, frame, wave,
                   fft_input>>

SpecFft == InitFft /\ [][CallFft]_vars

(***************************************************************************)
(* Properties of fft, under SpecFft                                        *)
(***************************************************************************)
Returned == fft_result.status = "returned"

IsPowerOfTwo(n) == \E k \in 0..30 : n = 2 ^ k

CZero == Complex(FZero, FZero)
COne == Complex(FInt(1), FZero)

\* z * (-i)^p, exactly
Rot(z, p) ==
    CASE p % 4 = 0 -> z
      [] p % 4 = 1 -> Complex(z.im, FNeg(z.re))
      [] p % 4 = 2 -> Complex(FNeg(z.re), FNeg(z.im))
      [] p % 4 = 3 -> Complex(FNeg(z.im), z.re)

\* bin k of the discrete Fourier transform of x, for Len(x) in {1, 2, 4},
\* where e^(-2 pi i j k / n) = (-i)^(j k (4 / n)); k and j count from 1
RECURSIVE DftSum(_, _, _, _)
DftSum(x, k, j, acc) ==
    IF j > Len(x) THEN acc
    ELSE DftSum(x, k, j + 1,
                CAdd(acc, Rot(x[j], (j - 1) * (k - 1) * (4 \div Len(x)))))

Dft(x) == [k \in 1..Len(x) |-> DftSum(x, k, 1, CZero)]

FAbs(a) == IF IsFinite(a) THEN [a EXCEPT !.s = 0] ELSE a

\* both parts within 2^-50
Near(a, b) ==
    /\ FLess(FAbs(FSub(a.re, b.re)), FExact(0, <<1>>, -50))
    /\ FLess(FAbs(FSub(a.im, b.im)), FExact(0, <<1>>, -50))

\* C1 as stated: for an input of length 1, 2 or 4, fft leaves in the slice
\* exactly its discrete Fourier transform, every twiddle factor being one of
\* 1, -i, -1, i.
C1_FftIsExactDft ==
    (Returned /\ Len(fft_input) \in {1, 2, 4}) =>
        fft_result.input = Dft(fft_input)

\* C1: for an input of length 1, 2 or 4, fft leaves in the slice its discrete
\* Fourier transform to within 2^-50 in each part; exactly for lengths 1 and
\* 2, exactly in bins 0 and 2 of length 4, and exactly in every bin of length
\* 4 when input[1] = input[3] (the impulse at index 0 and the constant
\* sequence among them).  The twiddle factor of bin 1 is
\* (cos(-pi/2), sin(-pi/2)) = (6.123233995736766e-17, -1), not -i.
C1_FftIsDftWithinRounding ==
    (Returned /\ Len(fft_input) \in {1, 2, 4}) =>
        /\ \A k \in 1..Len(fft_input) :
               Near(fft_result.input[k], Dft(fft_input)[k])
        /\ Len(fft_input) <= 2 => fft_result.input = Dft(fft_input)
        /\ Len(fft_input) = 4 =>
               /\ fft_result.input[1] = Dft(fft_input)[1]
               /\ fft_result.input[3] = Dft(fft_input)[3]
               /\ fft_input[2] = fft_input[4] =>
                      fft_result.input = Dft(fft_input)

\* the constant sequence of length 4 transformed to [(4,0), (0,0), (0,0), (0,0)]
C1_ConstantTransformed ==
    /\ Returned
    /\ fft_input = <<COne, COne, COne, COne>>
    /\ fft_result.input = <<Complex(FInt(4), FZero), CZero, CZero, CZero>>

\* C2: when the length of the input is not a power of two, fft does not
\* return normally having written into the slice.
C2_NonPowerOfTwoIsRejected ==
    (Returned /\ ~IsPowerOfTwo(Len(fft_input))) => fft_result.writes = <<>>

\* the indices the combine loop of the outermost call wrote
Written == {fft_result.writes[j] : j \in 1..Len(fft_result.writes)}

\* C10: for every input length, fft returns without an index out of bounds
\* at any recursion level and leaves the slice's length as it was; for an
\* even length the combine loop writes every index 0..n-1 exactly once; for
\* an odd length of at least 3 it never writes index n-1, and the last
\* element is left as it was.
C10_FftStaysInBounds ==
    fft_result.status # "none" =>
        /\ fft_result.ok
        /\ Len(fft_result.input) = Len(fft_input)
        /\ Len(fft_input) % 2 = 0 =>
               /\ Len(fft_result.writes) = Len(fft_input)
               /\ Written = 0..(Len(fft_input) - 1)
        /\ (Len(fft_input) % 2 = 1 /\ Len(fft_input) >= 3) =>
               /\ (Len(fft_input) - 1) \notin Written
               /\ fft_result.input[Len(fft_input)] = fft_input[Len(fft_input)]

\* fft has returned from an input of length 5 whose last element is not zero
C10_OddLengthTransformed ==
    /\ Returned
    /\ Len(fft_input) = 5
    /\ fft_input[5] # CZero
    /\ Written = {0, 1, 2, 3}

(***************************************************************************)
(* Properties of get_combined_wave, under SpecWave                         *)
(***************************************************************************)
WaveReturned == wave.status = "returned"

\* C4: for input_signal_range <= 0 the result is empty, and for
\* num_samples = 0 with input_signal_range > 0 no sample of the result has a
\* value other than zero, whatever the components.
C4_InvalidParametersGiveEmptyOrZero ==
    WaveReturned =>
        /\ ~FLess(FZero, input_signal_range) => wave.input = <<>>
        /\ (num_samples = 0 /\ FLess(FZero, input_signal_range)) =>
               \A j \in 1..Len(wave.input) : wave.input[j][2] = CZero

\* C5: for num_samples N >= 1 and input_signal_range > 0 the result has N or
\* N - 1 samples.
C5_LengthIsNOrOneLess ==
    (WaveReturned /\ num_samples >= 1 /\ FLess(FZero, input_signal_range)) =>
        Len(wave.input) \in {num_samples - 1, num_samples}

\* ab, a, b: the results for the components fs = <<A, B>>, <<A>> and <<B>>
Additive(ab, a, b, fs) ==
    /\ a.status = "returned"
    /\ b.status = "returned"
    /\ Len(a.input) = Len(ab)
    /\ Len(b.input) = Len(ab)
    /\ \A j \in 1..Len(ab) :
           /\ a.input[j][1] = ab[j][1]
           /\ b.input[j][1] = ab[j][1]
           /\ a.input[j][2] = ComplexFrom(Term(fs[1], ab[j][1]))
           /\ b.input[j][2] = ComplexFrom(Term(fs[2], ab[j][1]))
           /\ ab[j][2] = ComplexFrom(FAdd(a.input[j][2].re, b.input[j][2].re))

\* C7: the result for two components A, B has the length and the positions
\* of the results for A alone and for B alone (same num_samples and
\* input_signal_range), and at every index its value is the f64 sum of their
\* values, each of which is f(x * frequency) * amplitude + y_shift.
C7_SynthesisIsAdditive ==
    (WaveReturned /\ Len(functions) = 2) =>
        Additive(wave.input,
                 get_combined_wave(<<functions[1]>>, num_samples,
                                   input_signal_range),
                 get_combined_wave(<<functions[2]>>, num_samples,
                                   input_signal_range),
                 functions)

\* two different components have been combined into at least three samples,
\* one of them not zero
C7_TwoComponentsCombined ==
    /\ WaveReturned
    /\ Len(functions) = 2
    /\ functions[1] # functions[2]
    /\ Len(wave.input) >= 3
    /\ \E j \in 1..Len(wave.input) : wave.input[j][2] # CZero

\* C9: the sampling loop of get_combined_wave exits for every num_samples
\* and every input_signal_range.
C9_SamplingLoopExits == wave.status # "diverged"

(***************************************************************************)
(* Properties of the application, under Spec                               *)
(***************************************************************************)
Drawn == frame.status = "drawn"

\* C3: the sequence the Frequency Plot hands to fft has a power of two as
\* its length, in every reachable state.
C3_FftLengthIsPowerOfTwo == Drawn => IsPowerOfTwo(frame.fft_len)

\* C6: with no component, every sample get_combined_wave returns is zero and
\* every bin fft leaves is zero, whatever the length of the sequence.
C6_NoComponentsGiveZeros ==
    (Drawn /\ functions = <<>>) =>
        /\ \A j \in 1..Len(frame.input) : frame.input[j][2] = CZero
        /\ \A j \in 1..Len(frame.combined_wave) :
               frame.combined_wave[j][2] = FZero
        /\ Len(frame.new_input) = Len(frame.input)
        /\ \A k \in 1..Len(frame.new_input) : frame.new_input[k] = CZero
        /\ \A k \in 1..Len(frame.frequency_plot) :
               frame.frequency_plot[k][2] = FZero

\* a frame of 1000 samples, not a power of two, drawn with no component
C6_ThousandZerosDrawn ==
    /\ Drawn
    /\ functions = <<>>
    /\ Len(frame.input) = 1000
    /\ Len(frame.new_input) = 1000

=============================================================================
